---- MODULE Spec2Model ----
(***************************************************************************)
(* Model of src/main.py: one run of main(), the order-confirmation         *)
(* submission pipeline                                                     *)
(*   get_config -> file-path resolution -> init_session -> authorize       *)
(*              -> upload_file -> process_file                             *)
(* with send_telegram_message as the notification sink.                    *)
(*                                                                         *)
(* The run's inputs (config.json contents, the CLI argument, the BASE_URL  *)
(* environment variable) are fixed by Init.  What the outside world        *)
(* answers (portal responses, readability of the file, whether the         *)
(* Telegram POST is delivered, whether print() can write to stdout) is     *)
(* chosen when the stage that asks for it runs, and is recorded.           *)
(*                                                                         *)
(* HTTP statuses are those a response has after requests followed the      *)
(* redirects: 2xx, 4xx or 5xx.  Paths use "/" as the separator             *)
(* (posixpath); a path is the sequence of its segments, separators         *)
(* included; the empty sequence is the empty string.                       *)
(***************************************************************************)
EXTENDS Integers, Sequences, FiniteSets, TLC

VARIABLES
    pc,             \* the stage main() is about to run, or "done"
    config,         \* contents of config.json (input)
    argv,           \* the optional positional CLI argument (input)
    env,            \* environment variables read by the stages (input)
    file_path,      \* main's local file_path
    session,        \* main's local session
    file_name,      \* main's local file_name (return value of upload_file)
    calls,          \* every network request attempted, in order
    notifications,  \* every call of send_telegram_message, in order
    stdout,         \* what print() has written
    probeResp,      \* answer to init_session's GET
    authResp,       \* answer to authorize's POST
    uploadResp,     \* answer to upload_file's POST
    procResp,       \* answer to process_file's POST
    uploadArg,      \* file_path argument upload_file was called with
    procArg,        \* arguments process_file was called with
    endedAt,        \* the stage at which main() stopped
    crashed         \* TRUE when main() ended by an uncaught exception

vars == <<pc, config, argv, env, file_path, session, file_name, calls,
          notifications, stdout, probeResp, authResp, uploadResp, procResp,
          uploadArg, procArg, endedAt, crashed>>

(***************************************************************************)
(* Bounds of the model.                                                    *)
(***************************************************************************)
MaxToken == 2        \* upload tokens tok1 .. tokMaxToken
MaxStatusCode == 1   \* status_code values 0 .. MaxStatusCode, as int and as text

(***************************************************************************)
(* Python values.                                                          *)
(***************************************************************************)
None == "None"

\* A JSON scalar as Python sees it after json.load: t is its type, n its
\* number (a float is n.0, a bool is 0/1), s its text.
JInt(n)   == [t |-> "int",   n |-> n, s |-> ""]
JFloat(n) == [t |-> "float", n |-> n, s |-> ""]
JBool(b)  == [t |-> "bool",  n |-> IF b THEN 1 ELSE 0, s |-> ""]
JStr(s)   == [t |-> "str",   n |-> 0, s |-> s]
JNull     == [t |-> "null",  n |-> 0, s |-> ""]
JAbsent   == [t |-> "absent", n |-> 0, s |-> ""]     \* the key is not there

Digit(d) ==
    CASE d = 0 -> "0" [] d = 1 -> "1" [] d = 2 -> "2" [] d = 3 -> "3"
      [] d = 4 -> "4" [] d = 5 -> "5" [] d = 6 -> "6" [] d = 7 -> "7"
      [] d = 8 -> "8" [] d = 9 -> "9"

RECURSIVE IntToStr(_)
IntToStr(n) ==
    IF n < 10 THEN Digit(n) ELSE IntToStr(n \div 10) \o Digit(n % 10)

\* dict.get(key): None when the key is absent.
DictGet(v) == IF v.t = "absent" THEN JNull ELSE v

\* str(v)
PyStr(v) ==
    CASE v.t = "int"   -> IntToStr(v.n)
      [] v.t = "float" -> IntToStr(v.n) \o ".0"
      [] v.t = "bool"  -> IF v.n = 1 THEN "True" ELSE "False"
      [] v.t = "str"   -> v.s
      [] v.t = "null"  -> "None"

\* repr(v), as it appears inside the rendering of a dict
PyRepr(v) == IF v.t = "str" THEN "'" \o v.s \o "'" ELSE PyStr(v)

\* bool(v)
PyTruthy(v) ==
    CASE v.t = "int"   -> v.n # 0
      [] v.t = "float" -> v.n # 0
      [] v.t = "bool"  -> v.n = 1
      [] v.t = "str"   -> v.s # ""
      [] v.t = "null"  -> FALSE

(***************************************************************************)
(* Paths.                                                                  *)
(***************************************************************************)
Sep == "/"

ArgPaths == { <<>>, <<"a.xls">>, <<Sep, "tmp", Sep, "a.xls">> }
CfgPaths == { <<Sep, "cfg", Sep, "c.xls">> }

\* str.rfind(sep) + 1 : the index (0-based) just after the last separator
RFindSep(p) ==
    LET hits == { i \in 1..Len(p) : p[i] = Sep }
    IN  IF hits = {} THEN 0 ELSE CHOOSE i \in hits : \A j \in hits : j <= i

\* os.path.basename
Basename(p) == SubSeq(p, RFindSep(p) + 1, Len(p))

(***************************************************************************)
(* Inputs of a run.                                                        *)
(***************************************************************************)
ConfigKeys == { "base_url", "confirmation_file_path",
                "order_id_col", "quantity_col", "order_product_id_col" }
ColumnKeys == { "order_id_col", "quantity_col", "order_product_id_col" }

NoPath == << None >>       \* Python None where a path is expected

Configs ==
    { [kind |-> k, keys |-> {}, cfp |-> NoPath] : k \in {"absent", "malformed"} }
    \cup
    { [kind |-> "object", keys |-> ks, cfp |-> NoPath] :
          ks \in SUBSET (ConfigKeys \ {"confirmation_file_path"}) }
    \cup
    { [kind |-> "object", keys |-> ks \cup {"confirmation_file_path"}, cfp |-> p] :
          ks \in SUBSET (ConfigKeys \ {"confirmation_file_path"}), p \in CfgPaths }

Argvs == { NoPath } \cup ArgPaths

PortalHost == "https://portal"
Envs == { [BASE_URL |-> b] : b \in { None, PortalHost } }

TelegramHost == "https://api.telegram.org"

(***************************************************************************)
(* What the outside world can answer.                                      *)
(***************************************************************************)
HttpStatuses == { 200, 404, 500 }

\* A response body.  fmt: "text" is not JSON, "json_list" is JSON but not an
\* object, "json_obj" is a JSON object whose fields are the ones below
\* (data: "absent", "null" or "obj"; fname is data.file_name).
NoBody == [fmt |-> "none", raw |-> "", errors |-> JAbsent, data |-> "absent",
           fname |-> JAbsent, status_code |-> JAbsent, err_msg |-> JAbsent]

TextBody(raw) == [NoBody EXCEPT !.fmt = "text", !.raw = raw]
ListBody      == [NoBody EXCEPT !.fmt = "json_list", !.raw = "[]"]
ObjBody       == [NoBody EXCEPT !.fmt = "json_obj", !.raw = "{..}"]

NoResp == [kind |-> "none", status |-> 0, body |-> NoBody]
ConnErr == [kind |-> "connerr", status |-> 0, body |-> NoBody]
Http(status, body) == [kind |-> "http", status |-> status, body |-> body]

\* Answers whose status is an error status carry no body the code reads.
HttpErrors == { Http(st, NoBody) : st \in HttpStatuses \ {200} }

ProbeResponses == { ConnErr } \cup { Http(st, NoBody) : st \in HttpStatuses }

AuthErrorsValues == { JAbsent, JNull, JStr(""), JStr("bad login"), JStr("locked") }
AuthBodies ==
    { TextBody("<html>"), ListBody }
    \cup { [ObjBody EXCEPT !.errors = e] : e \in AuthErrorsValues }
AuthResponses == { ConnErr } \cup HttpErrors \cup { Http(200, b) : b \in AuthBodies }

Tokens == { JStr("tok" \o IntToStr(i)) : i \in 1..MaxToken }
FileNameValues == Tokens \cup { JStr(""), JNull, JAbsent }
UploadBodies ==
    { TextBody("<html>"), ListBody, ObjBody, [ObjBody EXCEPT !.data = "null"] }
    \cup { [ObjBody EXCEPT !.data = "obj", !.fname = f] : f \in FileNameValues }
UploadResponses == { ConnErr } \cup HttpErrors \cup { Http(200, b) : b \in UploadBodies }

StatusCodeValues ==
    { JAbsent, JNull, JFloat(0), JBool(FALSE) }
    \cup { JInt(i) : i \in 0..MaxStatusCode }
    \cup { JStr(IntToStr(i)) : i \in 0..MaxStatusCode }
ErrMsgValues == { JAbsent, JStr("bad column") }
ProcBodies ==
    { TextBody("Internal Error"), ListBody }
    \cup { [ObjBody EXCEPT !.status_code = sc, !.err_msg = em] :
              sc \in StatusCodeValues, em \in ErrMsgValues }
ProcResponses == { ConnErr } \cup HttpErrors \cup { Http(200, b) : b \in ProcBodies }

\* Response.raise_for_status(): raises HTTPError for 4xx and 5xx.
RaisesForStatus(status) == status >= 400 /\ status < 600

\* The text of the exception a failed request raises.
TransportError(r) ==
    IF r.kind = "connerr" THEN "ConnectionError"
    ELSE "HTTPError " \o IntToStr(r.status)

(***************************************************************************)
(* The observable world a stage acts on: [calls, notifications, stdout].   *)
(***************************************************************************)
PortalCall(op, e, sid) == [op |-> op, host |-> e.BASE_URL, sid |-> sid]
TelegramCall == [op |-> "sendMessage", host |-> TelegramHost, sid |-> None]

Request(w, c) == [w EXCEPT !.calls = Append(@, c)]

\* send_telegram_message(text): one POST to the Telegram API; whether it is
\* delivered or fails is only logged.
send_telegram_message(w, kind, text, delivered) ==
    [w EXCEPT !.calls = Append(@, TelegramCall),
              !.notifications =
                  Append(@, [kind |-> kind, text |-> text, delivered |-> delivered])]

Success(w, text, d) == send_telegram_message(w, "success", text, d)
Failure(w, text, d) == send_telegram_message(w, "failure", text, d)

(***************************************************************************)
(* The stage functions.  Each takes the world w, its arguments and what    *)
(* the outside answers, and yields the world after it, its return value    *)
(* (ret), the response it consumed (resp) and whether an exception left    *)
(* it (raised).  d is whether the notification it sends is delivered.      *)
(***************************************************************************)
Exc(name) == << "exc", name >>

\* Mutant of get_config: on a load error it notifies and falls back to a
\* default config instead of None.
get_config_defaults(w, c, d) ==
    IF c.kind = "object"
    THEN [w |-> w, ret |-> [isNone |-> FALSE, keys |-> c.keys]]
    ELSE [w |-> Failure(w, Exc("load error"), d),
          ret |-> [isNone |-> FALSE, keys |-> ColumnKeys]]

\* get_config(): the parsed config, or a notification and None.
get_config(w, c, d) ==
    IF c.kind = "object"
    THEN [w |-> w, ret |-> [isNone |-> FALSE, keys |-> c.keys]]
    ELSE [w |-> Failure(w, Exc(IF c.kind = "absent" THEN "FileNotFoundError"
                                                    ELSE "JSONDecodeError"), d),
          ret |-> [isNone |-> TRUE, keys |-> {}]]

\* `not config` in main: None and the empty dict are both falsy.
ConfigFalsy(ret) == ret.isNone \/ ret.keys = {}

\* `if args.file_path` in main: None and the empty string are both falsy.
ArgGiven(a) == a # NoPath /\ a # << >>

NoPathMsg == << "msg", "no file path in argv or config.json" >>

\* main, file-path resolution.
resolve_file_path(w, a, c, d) ==
    IF ArgGiven(a)
    THEN [w |-> w, ok |-> TRUE, path |-> a]
    ELSE IF "confirmation_file_path" \notin c.keys
         THEN [w |-> Failure(w, NoPathMsg, d), ok |-> FALSE, path |-> NoPath]
         ELSE [w |-> w, ok |-> TRUE, path |-> c.cfp]

TheSession == "Session#1"

\* init_session(config): requests.Session() and a GET of BASE_URL, whose
\* status is not inspected.
init_session(w, e, r, d) ==
    IF e.BASE_URL = None
    THEN [w |-> Failure(w, Exc("MissingSchema"), d), ret |-> None, resp |-> NoResp]
    ELSE LET w1 == Request(w, PortalCall("probe", e, TheSession))
         IN  IF r.kind = "connerr"
             THEN [w |-> Failure(w1, Exc(TransportError(r)), d),
                   ret |-> None, resp |-> r]
             ELSE [w |-> w1, ret |-> TheSession, resp |-> r]

\* Mutant of authorize: the errors field of a 2xx answer is not inspected.
authorize_unchecked(w, e, sid, r, d) ==
    IF e.BASE_URL = None
    THEN [w |-> Failure(w, Exc("TypeError"), d), ret |-> FALSE, resp |-> NoResp]
    ELSE LET w1 == Request(w, PortalCall("auth", e, sid))
         IN  IF r.kind = "connerr" \/ RaisesForStatus(r.status)
             THEN [w |-> Failure(w1, Exc(TransportError(r)), d),
                   ret |-> FALSE, resp |-> r]
             ELSE [w |-> w1, ret |-> TRUE, resp |-> r]

\* Mutant of authorize: a rejected login returns False without notifying.
authorize_silent(w, e, sid, r, d) ==
    IF e.BASE_URL = None
    THEN [w |-> Failure(w, Exc("TypeError"), d), ret |-> FALSE, resp |-> NoResp]
    ELSE LET w1 == Request(w, PortalCall("auth", e, sid))
             fail(text) == [w |-> Failure(w1, text, d), ret |-> FALSE, resp |-> r]
         IN  IF r.kind = "connerr" \/ RaisesForStatus(r.status)
             THEN fail(Exc(TransportError(r)))
             ELSE IF r.body.fmt = "text" THEN fail(Exc("JSONDecodeError"))
             ELSE IF r.body.fmt = "json_list" THEN fail(Exc("AttributeError"))
             ELSE [w |-> w1, ret |-> ~PyTruthy(DictGet(r.body.errors)), resp |-> r]

\* Mutant of authorize: a rejected login returns what sending the
\* notification returned (whether it was delivered).
authorize_escalates(w, e, sid, r, d) ==
    IF e.BASE_URL = None
    THEN [w |-> Failure(w, Exc("TypeError"), d), ret |-> FALSE, resp |-> NoResp]
    ELSE LET w1 == Request(w, PortalCall("auth", e, sid))
             fail(text) == [w |-> Failure(w1, text, d), ret |-> FALSE, resp |-> r]
         IN  IF r.kind = "connerr" \/ RaisesForStatus(r.status)
             THEN fail(Exc(TransportError(r)))
             ELSE IF r.body.fmt = "text" THEN fail(Exc("JSONDecodeError"))
             ELSE IF r.body.fmt = "json_list" THEN fail(Exc("AttributeError"))
             ELSE IF PyTruthy(DictGet(r.body.errors))
                  THEN [w |-> Failure(w1, << "errors", PyStr(r.body.errors) >>, d),
                        ret |-> ~d, resp |-> r]
                  ELSE [w |-> w1, ret |-> TRUE, resp |-> r]

\* authorize(session)
authorize(w, e, sid, r, d) ==
    IF e.BASE_URL = None
    THEN [w |-> Failure(w, Exc("TypeError"), d), ret |-> FALSE, resp |-> NoResp]
    ELSE LET w1 == Request(w, PortalCall("auth", e, sid))
             fail(text) == [w |-> Failure(w1, text, d), ret |-> FALSE, resp |-> r]
         IN  IF r.kind = "connerr" \/ RaisesForStatus(r.status)
             THEN fail(Exc(TransportError(r)))
             ELSE IF r.body.fmt = "text" THEN fail(Exc("JSONDecodeError"))
             ELSE IF r.body.fmt = "json_list" THEN fail(Exc("AttributeError"))
             ELSE IF PyTruthy(DictGet(r.body.errors))
                  THEN fail(<< "errors", PyStr(r.body.errors) >>)
                  ELSE [w |-> w1, ret |-> TRUE, resp |-> r]

\* Can open(file_path, "rb") succeed at all: not for the empty string.
Openable(path) == path # << >> /\ path # NoPath

\* Mutant of upload_file: the token is read with .get(), so a missing
\* data.file_name yields None without an exception or a notification.
upload_file_get(w, e, sid, path, readable, r, d) ==
    IF e.BASE_URL = None
    THEN [w |-> w, ret |-> JNull, resp |-> NoResp, raised |-> TRUE]
    ELSE IF ~readable
    THEN [w |-> Failure(w, Exc("FileNotFoundError"), d),
          ret |-> JNull, resp |-> NoResp, raised |-> FALSE]
    ELSE LET w1 == Request(w, PortalCall("upload", e, sid))
             fail(text) == [w |-> Failure(w1, text, d), ret |-> JNull,
                            resp |-> r, raised |-> FALSE]
         IN  IF r.kind = "connerr" \/ RaisesForStatus(r.status)
             THEN fail(Exc(TransportError(r)))
             ELSE IF r.body.fmt = "text" THEN fail(Exc("JSONDecodeError"))
             ELSE IF r.body.fmt = "json_list" THEN fail(Exc("TypeError"))
             ELSE [w |-> w1, ret |-> DictGet(r.body.fname), resp |-> r,
                   raised |-> FALSE]

\* Mutant of upload_file: it returns the name of the local file instead of
\* the token the portal assigned.
upload_file_localname(w, e, sid, path, readable, r, d) ==
    IF e.BASE_URL = None
    THEN [w |-> w, ret |-> JNull, resp |-> NoResp, raised |-> TRUE]
    ELSE IF ~readable
    THEN [w |-> Failure(w, Exc("FileNotFoundError"), d),
          ret |-> JNull, resp |-> NoResp, raised |-> FALSE]
    ELSE LET w1 == Request(w, PortalCall("upload", e, sid))
             fail(text) == [w |-> Failure(w1, text, d), ret |-> JNull,
                            resp |-> r, raised |-> FALSE]
         IN  IF r.kind = "connerr" \/ RaisesForStatus(r.status)
             THEN fail(Exc(TransportError(r)))
             ELSE IF r.body.fmt = "text" THEN fail(Exc("JSONDecodeError"))
             ELSE IF r.body.fmt = "json_list" THEN fail(Exc("TypeError"))
             ELSE IF r.body.data = "absent" THEN fail(Exc("KeyError 'data'"))
             ELSE IF r.body.data = "null" THEN fail(Exc("TypeError"))
             ELSE IF r.body.fname.t = "absent" THEN fail(Exc("KeyError 'file_name'"))
             ELSE [w |-> w1, ret |-> JStr(path[Len(path)]), resp |-> r,
                   raised |-> FALSE]

\* upload_file(session, config, file_path)
upload_file(w, e, sid, path, readable, r, d) ==
    IF e.BASE_URL = None
    THEN [w |-> w, ret |-> JNull, resp |-> NoResp, raised |-> TRUE]
    ELSE IF ~readable
    THEN [w |-> Failure(w, Exc("FileNotFoundError"), d),
          ret |-> JNull, resp |-> NoResp, raised |-> FALSE]
    ELSE LET w1 == Request(w, PortalCall("upload", e, sid))
             fail(text) == [w |-> Failure(w1, text, d), ret |-> JNull,
                            resp |-> r, raised |-> FALSE]
         IN  IF r.kind = "connerr" \/ RaisesForStatus(r.status)
             THEN fail(Exc(TransportError(r)))
             ELSE IF r.body.fmt = "text" THEN fail(Exc("JSONDecodeError"))
             ELSE IF r.body.fmt = "json_list" THEN fail(Exc("TypeError"))
             ELSE IF r.body.data = "absent" THEN fail(Exc("KeyError 'data'"))
             ELSE IF r.body.data = "null" THEN fail(Exc("TypeError"))
             ELSE IF r.body.fname.t = "absent" THEN fail(Exc("KeyError 'file_name'"))
             ELSE [w |-> w1, ret |-> r.body.fname, resp |-> r, raised |-> FALSE]

\* The rendering of the parsed body, a dict without err_msg.
DictRepr(b) ==
    IF b.status_code.t = "absent" THEN << "dict" >>
    ELSE << "dict", "status_code", PyRepr(b.status_code) >>

\* Mutant of classify: status_code is compared as a number with 0.
classify_numeric(w, path, r, d) ==
    IF r.body.fmt # "json_obj"
    THEN Failure(w, << "raw", r.body.raw >>, d)
    ELSE IF r.body.status_code.t \in {"int", "float"} /\ r.body.status_code.n = 0
         THEN Success(w, << "file" >> \o Basename(path), d)
         ELSE IF r.body.err_msg.t = "absent"
              THEN Failure(w, DictRepr(r.body), d)
              ELSE Failure(w, << "err_msg", PyStr(r.body.err_msg) >>, d)

\* process_file, lines 164-176: the classification of a 2xx response.
classify(w, path, r, d) ==
    IF r.body.fmt # "json_obj"
    THEN Failure(w, << "raw", r.body.raw >>, d)
    ELSE IF PyStr(DictGet(r.body.status_code)) = "0"
         THEN Success(w, << "file" >> \o Basename(path), d)
         ELSE IF r.body.err_msg.t = "absent"
              THEN Failure(w, DictRepr(r.body), d)
              ELSE Failure(w, << "err_msg", PyStr(r.body.err_msg) >>, d)

\* print(proc_response.text), inside the outer try.
print_text(w, r, canPrint, d) ==
    IF canPrint THEN [w EXCEPT !.stdout = Append(@, r.body.raw)]
    ELSE Failure(w, Exc("print: OSError"), d)

\* process_file(session, file_name, file_path, config)
process_file(w, e, sid, fname, path, c, r, canPrint, d1, d2) ==
    IF e.BASE_URL = None \/ ~(ColumnKeys \subseteq c.keys)
    THEN [w |-> w, resp |-> NoResp, raised |-> TRUE]
    ELSE LET w1 == Request(w, PortalCall("proc", e, sid))
         IN  IF r.kind = "connerr" \/ RaisesForStatus(r.status)
             THEN [w |-> Failure(w1, Exc(TransportError(r)), d1),
                   resp |-> r, raised |-> FALSE]
             ELSE [w |-> print_text(classify(w1, path, r, d1), r, canPrint, d2),
                   resp |-> r, raised |-> FALSE]

(***************************************************************************)
(* The run: main().  Each action is one stage call together with main's    *)
(* test of what it returned.                                               *)
(***************************************************************************)
World == [calls |-> calls, notifications |-> notifications, stdout |-> stdout]

SetWorld(w) ==
    /\ calls' = w.calls
    /\ notifications' = w.notifications
    /\ stdout' = w.stdout

NoProcArg == [file_name |-> JAbsent, file_path |-> NoPath, sid |-> None]

Init ==
    /\ pc = "get_config"
    /\ config \in Configs
    /\ argv \in Argvs
    /\ env \in Envs
    /\ file_path = NoPath
    /\ session = None
    /\ file_name = JAbsent
    /\ calls = << >>
    /\ notifications = << >>
    /\ stdout = << >>
    /\ probeResp = NoResp
    /\ authResp = NoResp
    /\ uploadResp = NoResp
    /\ procResp = NoResp
    /\ uploadArg = NoPath
    /\ procArg = NoProcArg
    /\ endedAt = "running"
    /\ crashed = FALSE

\* main returns (or an exception leaves it) at stage `at`.
GoTo(next, at) ==
    /\ pc' = IF next = "done" THEN "done" ELSE next
    /\ endedAt' = IF next = "done" THEN at ELSE endedAt

\* main, lines 198-200
GetConfig ==
    /\ pc = "get_config"
    /\ \E d \in BOOLEAN :
          LET o == get_config(World, config, d)
          IN  /\ SetWorld(o.w)
              /\ GoTo(IF ConfigFalsy(o.ret) THEN "done" ELSE "resolve", "get_config")
    /\ UNCHANGED <<config, argv, env, file_path, session, file_name, probeResp,
                   authResp, uploadResp, procResp, uploadArg, procArg, crashed>>

\* main, lines 203-213
ResolveFilePath ==
    /\ pc = "resolve"
    /\ \E d \in BOOLEAN :
          LET o == resolve_file_path(World, argv, config, d)
          IN  /\ SetWorld(o.w)
              /\ file_path' = o.path
              /\ GoTo(IF o.ok THEN "init_session" ELSE "done", "resolve")
    /\ UNCHANGED <<config, argv, env, session, file_name, probeResp, authResp,
                   uploadResp, procResp, uploadArg, procArg, crashed>>

\* main, lines 215-217
InitSession ==
    /\ pc = "init_session"
    /\ \E r \in ProbeResponses, d \in BOOLEAN :
          LET o == init_session(World, env, r, d)
          IN  /\ SetWorld(o.w)
              /\ session' = o.ret
              /\ probeResp' = o.resp
              /\ GoTo(IF o.ret = None THEN "done" ELSE "authorize", "init_session")
    /\ UNCHANGED <<config, argv, env, file_path, file_name, authResp, uploadResp,
                   procResp, uploadArg, procArg, crashed>>

\* main, lines 218-219
Authorize ==
    /\ pc = "authorize"
    /\ \E r \in AuthResponses, d \in BOOLEAN :
          LET o == authorize(World, env, session, r, d)
          IN  /\ SetWorld(o.w)
              /\ authResp' = o.resp
              /\ GoTo(IF o.ret THEN "upload_file" ELSE "done", "authorize")
    /\ UNCHANGED <<config, argv, env, file_path, session, file_name, probeResp,
                   uploadResp, procResp, uploadArg, procArg, crashed>>

\* main, lines 220-222
UploadFile ==
    /\ pc = "upload_file"
    /\ \E readable \in BOOLEAN, r \in UploadResponses, d \in BOOLEAN :
          /\ readable => Openable(file_path)
          /\ LET o == upload_file(World, env, session, file_path, readable, r, d)
             IN  /\ SetWorld(o.w)
                 /\ uploadArg' = file_path
                 /\ uploadResp' = o.resp
                 /\ file_name' = o.ret
                 /\ crashed' = o.raised
                 /\ GoTo(IF o.raised \/ ~PyTruthy(o.ret) THEN "done"
                         ELSE "process_file", "upload_file")
    /\ UNCHANGED <<config, argv, env, file_path, session, probeResp, authResp,
                   procResp, procArg>>

\* main, line 223
ProcessFile ==
    /\ pc = "process_file"
    /\ \E r \in ProcResponses, canPrint \in BOOLEAN, d1 \in BOOLEAN, d2 \in BOOLEAN :
          LET o == process_file(World, env, session, file_name, file_path, config,
                                r, canPrint, d1, d2)
          IN  /\ SetWorld(o.w)
              /\ procArg' = [file_name |-> file_name, file_path |-> file_path,
                             sid |-> session]
              /\ procResp' = o.resp
              /\ crashed' = o.raised
              /\ GoTo("done", "process_file")
    /\ UNCHANGED <<config, argv, env, file_path, session, file_name, probeResp,
                   authResp, uploadResp, uploadArg>>

Next ==
    \/ GetConfig
    \/ ResolveFilePath
    \/ InitSession
    \/ Authorize
    \/ UploadFile
    \/ ProcessFile

Spec == Init /\ [][Next]_vars

(***************************************************************************)
(* Vocabulary of the properties.                                           *)
(***************************************************************************)
IsPortalCall(c) == c.op # "sendMessage"
PortalOps ==
    LET pcs == SelectSeq(calls, IsPortalCall)
    IN  [i \in 1..Len(pcs) |-> pcs[i].op]
PortalOpSet == { calls[i].op : i \in 1..Len(calls) } \ {"sendMessage"}
Pipeline == << "probe", "auth", "upload", "proc" >>
IsPrefix(s, t) == Len(s) <= Len(t) /\ s = SubSeq(t, 1, Len(s))
Kinds == { notifications[i].kind : i \in 1..Len(notifications) }
Is2xx(r) == r.kind = "http" /\ r.status \in 200..299

(***************************************************************************)
(* C1: by the time a run of main() ends, exactly one call of               *)
(* send_telegram_message has been made, whichever stage failed or          *)
(* whether all succeeded.  The code breaks this: see C1_ExactlyOne.        *)
(***************************************************************************)
C1_ExactlyOne == pc = "done" => Len(notifications) = 1

C4_AuthRejected ==
    ( /\ Is2xx(authResp)
      /\ authResp.body.fmt = "json_obj"
      /\ authResp.body.errors.t = "str"
      /\ authResp.body.errors.s # "" )
    => /\ pc = "done" /\ endedAt = "authorize" /\ ~crashed
       /\ Len(notifications) = 1
       /\ notifications[1].kind = "failure"
       /\ notifications[1].text = << "errors", authResp.body.errors.s >>
       /\ PortalOps = << "probe", "auth" >>

C4_Witness ==
    /\ Is2xx(authResp)
    /\ authResp.body.errors = JStr("bad login")
    /\ pc = "done"

(***************************************************************************)
(* C5: when the upload POST is answered 2xx with a JSON object that lacks  *)
(* data.file_name (no data, data not an object, or data without            *)
(* file_name), the run ends at upload_file with exactly one notification,  *)
(* a failure, and the processing request is not made.                      *)
(***************************************************************************)
C5_UploadMalformed ==
    ( /\ Is2xx(uploadResp)
      /\ uploadResp.body.fmt = "json_obj"
      /\ (uploadResp.body.data # "obj" \/ uploadResp.body.fname = JAbsent) )
    => /\ pc = "done" /\ endedAt = "upload_file" /\ ~crashed
       /\ Len(notifications) = 1
       /\ notifications[1].kind = "failure"
       /\ PortalOps = << "probe", "auth", "upload" >>
       /\ procArg = NoProcArg

C5_Witness ==
    /\ Is2xx(uploadResp)
    /\ uploadResp.body.data = "obj"
    /\ uploadResp.body.fname = JAbsent
    /\ pc = "done"

(***************************************************************************)
(* C6, as claimed: if the config file is absent or unparseable, no network *)
(* call of any kind is made, the notification transport included.          *)
(***************************************************************************)
C6_NoNetworkCallAtAll == config.kind # "object" => calls = << >>

(***************************************************************************)
(* C6, amended: if the config file is absent or unparseable, no request to *)
(* the supplier portal is made, and the run ends at get_config having made *)
(* exactly one network call, the POST of the failure notification to the   *)
(* Telegram API.                                                           *)
(***************************************************************************)
C6_NoPortalCall ==
    config.kind # "object" =>
        /\ PortalOpSet = {}
        /\ pc \in { "get_config", "done" }
        /\ pc = "done" =>
              /\ calls = << TelegramCall >>
              /\ endedAt = "get_config"
              /\ Kinds = { "failure" }

C6_Witness == config.kind = "malformed" /\ pc = "done" /\ Len(calls) = 1

(***************************************************************************)
(* C7: if the config loaded but neither a CLI argument nor the config's    *)
(* confirmation_file_path gives a path, the run ends before init_session:  *)
(* no session, no portal request, and exactly one failure notification.    *)
(* The code breaks this for the empty config object (see C17).             *)
(***************************************************************************)
C7_NoPathOneFailure ==
    ( /\ config.kind = "object"
      /\ argv = NoPath
      /\ "confirmation_file_path" \notin config.keys
      /\ pc = "done" )
    => /\ session = None
       /\ PortalOpSet = {}
       /\ Len(notifications) = 1
       /\ notifications[1].kind = "failure"

(***************************************************************************)
(* C8: whenever a CLI argument is supplied, whatever its value, it is the  *)
(* path upload_file and process_file are called with.  The code breaks     *)
(* this for the empty-string argument.                                     *)
(***************************************************************************)
C8_ArgumentWins ==
    argv # NoPath =>
        /\ uploadArg # NoPath => uploadArg = argv
        /\ procArg # NoProcArg => procArg.file_path = argv

(***************************************************************************)
(* C9: a success notification is sent only in a run whose every stage      *)
(* succeeded, it is the only notification of that run, and it names the    *)
(* file by the last segment of the resolved path.  The code breaks "the    *)
(* only notification" when print() raises (see C16).                       *)
(***************************************************************************)
C9_SuccessAlone ==
    "success" \in Kinds =>
        /\ PortalOps = Pipeline
        /\ ~crashed
        /\ Len(notifications) = 1
        /\ notifications[1].text = << "file", file_path[Len(file_path)] >>

(***************************************************************************)
(* C10: if the probe of init_session is answered with a non-success HTTP   *)
(* status, no session is returned, one failure notification is sent and    *)
(* no authentication, upload or processing request is made.  The code      *)
(* does not inspect the probe's status.                                    *)
(***************************************************************************)
C10_ProbeStatusFails ==
    (probeResp.kind = "http" /\ probeResp.status \notin 200..299)
    => /\ session = None
       /\ pc = "done"
       /\ Len(notifications) = 1
       /\ PortalOps = << "probe" >>

(***************************************************************************)
(* C11: no stage function lets an exception escape to main, so main        *)
(* always ends by a normal return.  The code breaks this: process_file     *)
(* reads config["order_id_col"] and the other column keys before its try.  *)
(***************************************************************************)
C11_NoEscape == ~crashed

\* Notifications with the delivery outcome left out.
Undelivered(ns) ==
    [i \in 1..Len(ns) |-> [kind |-> ns[i].kind, text |-> ns[i].text]]
SameWorld(a, b) ==
    /\ a.calls = b.calls
    /\ a.stdout = b.stdout
    /\ Undelivered(a.notifications) = Undelivered(b.notifications)

C13_ConfigBaseUrlUsed ==
    ( /\ env.BASE_URL = None
      /\ "base_url" \in config.keys
      /\ pc = "done"
      /\ endedAt = "init_session" )
    => probeResp.kind # "none" /\ "probe" \in PortalOpSet

\* The text C14 expects of a failure notification of process_file.
C14_ExpectedText ==
    IF ~Is2xx(procResp) THEN << "exc", TransportError(procResp) >>
    ELSE IF procResp.body.fmt # "json_obj" THEN << "raw", procResp.body.raw >>
    ELSE IF procResp.body.err_msg = JAbsent
         THEN IF procResp.body.status_code = JAbsent THEN << "dict" >>
              ELSE << "dict", "status_code", PyRepr(procResp.body.status_code) >>
         ELSE << "err_msg", procResp.body.err_msg.s >>

(***************************************************************************)
(* C14: every failure notification process_file sends carries: the         *)
(* transport error description when the request failed or was answered     *)
(* non-2xx; the err_msg field, or the whole parsed body when err_msg is    *)
(* absent, when the body is a JSON object whose status_code is not "0";    *)
(* the raw response text when the body is not such JSON.  The code breaks  *)
(* this when print() raises (see C16): a further failure notification      *)
(* carries the print error.                                                *)
(***************************************************************************)
C14_FailureText ==
    (pc = "done" /\ endedAt = "process_file" /\ ~crashed) =>
        \A i \in 1..Len(notifications) :
            notifications[i].kind = "failure" =>
                notifications[i].text = C14_ExpectedText

(***************************************************************************)
(* C15: whenever the processing request is made, the file_name it carries  *)
(* is the data.file_name value of this run's upload answer, unchanged, and *)
(* every portal request of the run, this one included, is made on the one  *)
(* session init_session returned.                                          *)
(***************************************************************************)
C15_TokenVerbatim ==
    "proc" \in PortalOpSet =>
        /\ procArg.file_name = uploadResp.body.fname
        /\ procArg.file_name = file_name
        /\ procArg.sid = TheSession
        /\ session = TheSession
        /\ \A i \in 1..Len(calls) :
              IsPortalCall(calls[i]) => calls[i].sid = TheSession

C15_Witness ==
    /\ "proc" \in PortalOpSet
    /\ procArg.file_name = JStr("tok2")
    /\ uploadResp.body.fname = JStr("tok2")

(***************************************************************************)
(* C16: no run sends more than one notification.  The code breaks this:    *)
(* print(proc_response.text) sits inside process_file's outer try, after   *)
(* the classification has notified, and the outer handler notifies again.  *)
(***************************************************************************)
C16_AtMostOne == Len(notifications) <= 1

(***************************************************************************)
(* C17: whenever the config file was read and parsed, main goes on to the  *)
(* file-path resolution: main never stops at the config stage without a    *)
(* notification having been sent.  The code breaks this for the empty      *)
(* JSON object.                                                            *)
(***************************************************************************)
C17_ParsedConfigProceeds ==
    (pc = "done" /\ endedAt = "get_config") =>
        /\ config.kind # "object"
        /\ Len(notifications) >= 1

(***************************************************************************)
(* C18: whenever upload_file returns without having notified, main goes on *)
(* to process_file: main never stops at the upload stage without a         *)
(* notification having been sent.  The code breaks this for an empty or    *)
(* null data.file_name.                                                    *)
(***************************************************************************)
C18_UploadedProceeds ==
    (pc = "done" /\ endedAt = "upload_file") => Len(notifications) >= 1

====
